---- MODULE Spec2Model ----
(***************************************************************************)
(* minspan::span(query, history): the shortest window of history that      *)
(* contains query as a subsequence (src/src/lib.rs).                       *)
(*                                                                         *)
(* The function is modelled as a state machine over one call: the two      *)
(* early returns, the initialisation of the match state, one step per      *)
(* iteration of the inner loop (a query position that matches the current  *)
(* history element, or one that does not), the advance of the outer loop,  *)
(* and the final return.  Indices are the program's 0-based indices; a     *)
(* TLA+ sequence s holds the program's s[i] at s[i + 1].                   *)
(***************************************************************************)
EXTENDS Integers, Sequences, FiniteSets

\* Bounds of the model.
MaxQuery == 3
MaxHistory == 5
NumElems == 2

Elems == 1..NumElems

SeqsUpTo(S, n) == UNION {[1..k -> S] : k \in 0..n}

\* Option<(usize, usize)>
None == <<>>
Some(from, to) == <<from, to>>

VARIABLES query, history, pc, bodyindex, keyiter, starting_at,
          best_complete_solution, result

vars == <<query, history, pc, bodyindex, keyiter, starting_at,
          best_complete_solution, result>>

----------------------------------------------------------------------------
\* The helper of the property test: greedy subsequence test that consumes
\* main_seq from the left.
RECURSIVE is_subsequence(_, _)
is_subsequence(sub, main_seq) ==
    IF sub = <<>> THEN TRUE
    ELSE IF main_seq = <<>> THEN FALSE
    ELSE IF Head(main_seq) = Head(sub)
         THEN is_subsequence(Tail(sub), Tail(main_seq))
         ELSE is_subsequence(sub, Tail(main_seq))

\* history[from..=to]
Slice(s, from, to) == SubSeq(s, from + 1, to + 1)

\* query[0..=k]
Prefix(s, k) == SubSeq(s, 1, k + 1)

----------------------------------------------------------------------------
\* The two early returns, in the order the code tests them.
EntryEmptyQueryFirst(q, h) ==
    IF q = <<>> THEN "empty_query"
    ELSE IF h = <<>> THEN "empty_history"
    ELSE "scan"

Entry(q, h) ==
    IF h = <<>> THEN "empty_history"
    ELSE IF q = <<>> THEN "empty_query"
    ELSE "scan"

\* The value returned for an empty query.
EmptyQueryResultNone == None

EmptyQueryResult == Some(0, 0)

\* query.iter().enumerate().rev(): the key indices in the order visited.
KeyOrderAscending(m) == [j \in 1..m |-> j - 1]

KeyOrder(m) == [j \in 1..m |-> m - j]

\* keyindex == 0
IsFirstKeyByBody(keyindex, bodyidx) == bodyidx = 0

IsFirstKey(keyindex, bodyidx) == keyindex = 0

\* starting_at[keyindex - 1].map(|(start, _end)| (start, bodyindex))
ExtendFromEnd(prev, bodyidx) ==
    IF prev = None THEN None ELSE Some(prev[2], bodyidx)

ExtendOrFresh(prev, bodyidx) ==
    IF prev = None THEN Some(bodyidx, bodyidx) ELSE Some(prev[1], bodyidx)

Extend(prev, bodyidx) ==
    IF prev = None THEN None ELSE Some(prev[1], bodyidx)

\* The value assigned to starting_at[keyindex] on a match.
NewEntryKeepStart(sa, keyindex, bodyidx) ==
    IF IsFirstKey(keyindex, bodyidx)
    THEN IF sa[keyindex] = None THEN Some(bodyidx, bodyidx)
         ELSE Some(sa[keyindex][1], bodyidx)
    ELSE Extend(sa[keyindex - 1], bodyidx)

NewEntry(sa, keyindex, bodyidx) ==
    IF IsFirstKey(keyindex, bodyidx)
    THEN Some(bodyidx, bodyidx)
    ELSE Extend(sa[keyindex - 1], bodyidx)

\* (keyindex + 1) == query.len()
IsLastKeyOffByOne(keyindex, m) == keyindex = m

IsLastKey(keyindex, m) == keyindex + 1 = m

\* to - from < currto - currfrom
ShorterOrEqual(from, to, currfrom, currto) == to - from <= currto - currfrom

Shorter(from, to, currfrom, currto) == to - from < currto - currfrom

\* The match on best_complete_solution.
UpdateBestKeepFirst(best, cand) ==
    IF best = None THEN cand ELSE best

UpdateBest(best, cand) ==
    IF best = None THEN cand
    ELSE IF Shorter(cand[1], cand[2], best[1], best[2]) THEN cand ELSE best

\* The operations of a matching inner iteration that can fault: an index
\* outside starting_at, keyindex - 1 below zero, or an unsigned subtraction
\* to - from with to < from.  (With overflow checks the subtraction panics,
\* without them it wraps; the model stops at the first faulty operation.)
IndexFault(sa, keyindex, bodyidx) ==
    \/ keyindex \notin DOMAIN sa
    \/ /\ ~IsFirstKey(keyindex, bodyidx)
       /\ \/ keyindex < 1
          \/ keyindex - 1 \notin DOMAIN sa

SubFault(best, cand) ==
    /\ best # None
    /\ cand # None
    /\ \/ cand[2] < cand[1]
       \/ best[2] < best[1]

----------------------------------------------------------------------------
Init ==
    /\ query \in SeqsUpTo(Elems, MaxQuery)
    /\ history \in SeqsUpTo(Elems, MaxHistory)
    /\ pc = "start"
    /\ bodyindex = 0
    /\ keyiter = <<>>
    /\ starting_at = <<>>
    /\ best_complete_solution = None
    /\ result = None

\* if history.is_empty() { return None; }
EmptyHistory ==
    /\ pc = "start"
    /\ Entry(query, history) = "empty_history"
    /\ result' = None
    /\ pc' = "done"
    /\ UNCHANGED <<query, history, bodyindex, keyiter, starting_at,
                   best_complete_solution>>

\* if query.is_empty() { return Some((0, 0)); }
EmptyQuery ==
    /\ pc = "start"
    /\ Entry(query, history) = "empty_query"
    /\ result' = EmptyQueryResult
    /\ pc' = "done"
    /\ UNCHANGED <<query, history, bodyindex, keyiter, starting_at,
                   best_complete_solution>>

\* let mut starting_at = ...; let mut best_complete_solution = None;
\* and the entry into the outer loop.
InitScan ==
    /\ pc = "start"
    /\ Entry(query, history) = "scan"
    /\ starting_at' = [k \in 0..(Len(query) - 1) |-> None]
    /\ best_complete_solution' = None
    /\ bodyindex' = 0
    /\ keyiter' = KeyOrder(Len(query))
    /\ pc' = "scan"
    /\ UNCHANGED <<query, history, result>>

\* An inner iteration with keychr != bodychr.
Skip ==
    /\ pc = "scan"
    /\ bodyindex < Len(history)
    /\ keyiter # <<>>
    /\ query[Head(keyiter) + 1] # history[bodyindex + 1]
    /\ keyiter' = Tail(keyiter)
    /\ UNCHANGED <<query, history, pc, bodyindex, starting_at,
                   best_complete_solution, result>>

\* An inner iteration with keychr == bodychr.
Match ==
    /\ pc = "scan"
    /\ bodyindex < Len(history)
    /\ keyiter # <<>>
    /\ query[Head(keyiter) + 1] = history[bodyindex + 1]
    /\ LET keyindex == Head(keyiter) IN
       IF IndexFault(starting_at, keyindex, bodyindex)
       THEN /\ pc' = "fault"
            /\ UNCHANGED <<keyiter, starting_at, best_complete_solution>>
       ELSE LET entry == NewEntry(starting_at, keyindex, bodyindex)
                complete == IsLastKey(keyindex, Len(query)) /\ entry # None
            IN  IF complete /\ SubFault(best_complete_solution, entry)
                THEN /\ pc' = "fault"
                     /\ starting_at' = [starting_at EXCEPT ![keyindex] = entry]
                     /\ UNCHANGED <<keyiter, best_complete_solution>>
                ELSE /\ starting_at' = [starting_at EXCEPT ![keyindex] = entry]
                     /\ best_complete_solution' =
                            IF complete
                            THEN UpdateBest(best_complete_solution, entry)
                            ELSE best_complete_solution
                     /\ keyiter' = Tail(keyiter)
                     /\ pc' = "scan"
    /\ UNCHANGED <<query, history, bodyindex, result>>

\* The inner loop is exhausted: the outer loop moves to the next element.
NextBody ==
    /\ pc = "scan"
    /\ bodyindex < Len(history)
    /\ keyiter = <<>>
    /\ bodyindex' = bodyindex + 1
    /\ keyiter' = KeyOrder(Len(query))
    /\ UNCHANGED <<query, history, pc, starting_at, best_complete_solution,
                   result>>

\* The outer loop is exhausted: best_complete_solution is returned.
Return ==
    /\ pc = "scan"
    /\ bodyindex = Len(history)
    /\ result' = best_complete_solution
    /\ pc' = "done"
    /\ UNCHANGED <<query, history, bodyindex, keyiter, starting_at,
                   best_complete_solution>>

Next ==
    \/ EmptyHistory
    \/ EmptyQuery
    \/ InitScan
    \/ Skip
    \/ Match
    \/ NextBody
    \/ Return

Spec == Init /\ [][Next]_vars

----------------------------------------------------------------------------
\* Vocabulary of the properties.

Windows == {w \in (0..(Len(history) - 1)) \X (0..(Len(history) - 1)) :
                w[1] <= w[2]}

\* The window (f, t) of history contains q as a subsequence.
Contains(w, q) == is_subsequence(q, Slice(history, w[1], w[2]))

Returned == pc = "done" /\ result # None

\* All query positions have been tried against history[bodyindex].
RoundDone == pc = "scan" /\ bodyindex < Len(history) /\ keyiter = <<>>

----------------------------------------------------------------------------
\* C1 (minimality): when span returns Some((from, to)), no window (f, t) of
\* history with t - f < to - from contains query as a subsequence.
C1_Minimality ==
    Returned =>
        \A w \in Windows :
            (w[2] - w[1] < result[2] - result[1]) => ~Contains(w, query)

\* A call has returned a window that replaced an earlier, longer candidate.
C1_Witness ==
    /\ Returned
    /\ query # <<>>
    /\ \E w \in Windows :
          /\ Contains(w, query)
          /\ w[2] < result[2]
          /\ w[2] - w[1] > result[2] - result[1]
          /\ \A f \in (w[1] + 1)..w[2] : ~Contains(<<f, w[2]>>, query)

\* C2 (validity): when span returns Some((from, to)), from <= to <
\* history.len() and query is a subsequence of history[from..=to].
C2_Validity ==
    Returned =>
        /\ result[1] <= result[2]
        /\ result[2] < Len(history)
        /\ is_subsequence(query, Slice(history, result[1], result[2]))

\* A call has returned a window that does not start at index 0 and that is
\* longer than the query (the match has a gap).
C2_Witness ==
    /\ Returned
    /\ Len(query) >= 2
    /\ result[1] > 0
    /\ result[2] - result[1] + 1 > Len(query)

\* C3 (completeness and negative correctness): for a non-empty query, span
\* returns None if and only if query is not a subsequence of history.
C3_Completeness ==
    (pc = "done" /\ query # <<>>) =>
        ((result = None) <=> ~is_subsequence(query, history))

\* A call on a history that holds every element of the query, but not in the
\* query's order, has returned None.
C3_Witness ==
    /\ pc = "done"
    /\ Len(query) >= 2
    /\ result = None
    /\ \A j \in 1..Len(query) : \E i \in 1..Len(history) :
          history[i] = query[j]

\* C4 as stated (empty query): span returns Some((0, 0)) for an empty query
\* whatever the history, the empty history included.
C4_Original ==
    (pc = "done" /\ query = <<>>) => result = Some(0, 0)

\* C4 as amended: for an empty query span returns Some((0, 0)) when history
\* is not empty and None when history is empty.
C4_EmptyQuery ==
    (pc = "done" /\ query = <<>>) =>
        result = (IF history = <<>> THEN None ELSE Some(0, 0))

\* A call with an empty query and a non-empty history has returned (0, 0).
C4_Witness ==
    /\ pc = "done"
    /\ query = <<>>
    /\ history # <<>>
    /\ result = Some(0, 0)

\* C5 (empty history): span returns None for an empty history, whether the
\* query is empty or not.
C5_EmptyHistory ==
    (pc = "done" /\ history = <<>>) => result = None

\* A call with an empty history and an empty query has returned None.
C5_Witness ==
    /\ pc = "done"
    /\ history = <<>>
    /\ query = <<>>
    /\ result = None

\* C6 (tie-break): among the windows of the returned length that contain
\* query, the returned one has the smallest end and the smallest start; and
\* a recorded best candidate is replaced only by a strictly shorter one.
C6_FirstOfMinimal ==
    Returned =>
        \A w \in Windows :
            (w[2] - w[1] = result[2] - result[1] /\ Contains(w, query)) =>
                (result[2] <= w[2] /\ result[1] <= w[1])

C6_ReplaceOnlyShorter ==
    (best_complete_solution # None
        /\ best_complete_solution' # best_complete_solution) =>
        /\ best_complete_solution' # None
        /\ best_complete_solution'[2] - best_complete_solution'[1]
              < best_complete_solution[2] - best_complete_solution[1]

C6_TieBreak == [](C6_FirstOfMinimal) /\ [][C6_ReplaceOnlyShorter]_vars

\* A call with a non-empty query has returned while a different window of
\* the same length also contains the query.
C6_Witness ==
    /\ Returned
    /\ query # <<>>
    /\ \E w \in Windows :
          /\ w # result
          /\ w[2] - w[1] = result[2] - result[1]
          /\ Contains(w, query)

\* C7 (no fault): span never indexes out of bounds and never underflows:
\* every key index visited is an index of query and of starting_at,
\* keyindex - 1 is evaluated only when keyindex >= 1, and every pair whose
\* length is computed has from <= to.
C7_NoFault ==
    /\ pc # "fault"
    /\ pc = "scan" =>
          /\ DOMAIN starting_at = 0..(Len(query) - 1)
          /\ \A j \in 1..Len(keyiter) : keyiter[j] \in 0..(Len(query) - 1)
          /\ bodyindex <= Len(history)
          /\ \A k \in DOMAIN starting_at :
                starting_at[k] # None => starting_at[k][1] <= starting_at[k][2]
          /\ best_complete_solution # None =>
                best_complete_solution[1] <= best_complete_solution[2]
          /\ (bodyindex < Len(history) /\ keyiter # <<>>
                /\ ~IsFirstKey(Head(keyiter), bodyindex)) =>
                Head(keyiter) >= 1

\* The scan is about to handle a match of the last query position, not the
\* first, with a best candidate already recorded: keyindex - 1 is evaluated
\* and both subtractions are computed.
C7_Witness ==
    /\ pc = "scan"
    /\ bodyindex < Len(history)
    /\ keyiter # <<>>
    /\ Head(keyiter) >= 1
    /\ Head(keyiter) + 1 = Len(query)
    /\ query[Head(keyiter) + 1] = history[bodyindex + 1]
    /\ starting_at[Head(keyiter) - 1] # None
    /\ best_complete_solution # None

\* C8 (empty stays empty): the non-empty entries of starting_at form a
\* prefix of the query positions, and no step replaces a non-empty entry by
\* an empty one.
C8_NonEmptyPrefix ==
    \A k \in DOMAIN starting_at :
        (k >= 1 /\ starting_at[k] # None) => starting_at[k - 1] # None

C8_NeverErased ==
    \A k \in DOMAIN starting_at :
        starting_at[k] # None => starting_at'[k] # None

C8_EmptyStaysEmpty == [](C8_NonEmptyPrefix) /\ [][C8_NeverErased]_vars

\* history[bodyindex] matched query[k], k > 0, while starting_at[k-1] was
\* empty: the round is over and starting_at[k] is empty.
C8_Witness ==
    /\ RoundDone
    /\ \E k \in DOMAIN starting_at :
          /\ k >= 1
          /\ query[k + 1] = history[bodyindex + 1]
          /\ starting_at[k - 1] = None
          /\ starting_at[k] = None

\* C9 (descending inner scan): when query[k], k > 0, matches
\* history[bodyindex], the entry starting_at[k-1] that is read was written
\* at an earlier history index; every non-empty starting_at[k] = (s, e) has
\* e - s >= k; every complete candidate spans at least query.len() elements.
C9_DescendingScan ==
    pc \in {"scan", "done"} =>
        /\ (pc = "scan" /\ bodyindex < Len(history) /\ keyiter # <<>>) =>
              \A k \in DOMAIN starting_at :
                  (k < Head(keyiter) /\ starting_at[k] # None) =>
                      starting_at[k][2] < bodyindex
        /\ \A k \in DOMAIN starting_at :
              starting_at[k] # None =>
                  starting_at[k][2] - starting_at[k][1] >= k
        /\ best_complete_solution # None =>
              best_complete_solution[2] - best_complete_solution[1] + 1
                  >= Len(query)

\* The current history element equals two adjacent query positions, the
\* higher one has been handled, and the lower one is about to be.
C9_Witness ==
    /\ pc = "scan"
    /\ bodyindex < Len(history)
    /\ keyiter # <<>>
    /\ Head(keyiter) + 1 < Len(query)
    /\ query[Head(keyiter) + 1] = history[bodyindex + 1]
    /\ query[Head(keyiter) + 2] = history[bodyindex + 1]
    /\ starting_at[Head(keyiter) + 1] # None
    /\ starting_at[Head(keyiter) + 1][2] = bodyindex

\* C10 as stated: after history position i is processed, a non-empty
\* starting_at[k] = (s, e) is the shortest window ending at or before i that
\* contains query[0..=k].
C10_Original ==
    RoundDone =>
        \A k \in DOMAIN starting_at :
            starting_at[k] # None =>
                \A w \in Windows :
                    (w[2] <= bodyindex
                        /\ w[2] - w[1] < starting_at[k][2] - starting_at[k][1])
                    => ~Contains(w, Prefix(query, k))

\* C10 as amended: after history position i is processed, a non-empty
\* starting_at[k] = (s, e) contains query[0..=k], and no window (f, t) with
\* e <= t <= i and t - f < e - s contains query[0..=k].
C10_LatestPrefixMatch ==
    RoundDone =>
        \A k \in DOMAIN starting_at :
            starting_at[k] # None =>
                /\ starting_at[k][2] <= bodyindex
                /\ Contains(starting_at[k], Prefix(query, k))
                /\ \A w \in Windows :
                      (starting_at[k][2] <= w[2] /\ w[2] <= bodyindex
                          /\ w[2] - w[1]
                               < starting_at[k][2] - starting_at[k][1])
                      => ~Contains(w, Prefix(query, k))

\* A round is over with an entry starting_at[k], k > 0, that is longer than
\* a window containing query[0..=k] that ends before the entry does.
C10_Witness ==
    /\ RoundDone
    /\ \E k \in DOMAIN starting_at :
          /\ k >= 1
          /\ starting_at[k] # None
          /\ \E w \in Windows :
                /\ w[2] < starting_at[k][2]
                /\ w[2] - w[1] < starting_at[k][2] - starting_at[k][1]
                /\ Contains(w, Prefix(query, k))

====
